---- MODULE Spec2Model ----
(***************************************************************************)
(* libc-detector: detection of the host's libc family and version.         *)
(*                                                                         *)
(* The module models src/src/lib.rs: the detector registry, the glibc      *)
(* detector loop (temporary file, re-open through /proc, spawn, exit       *)
(* status, parse), the musl loader loop, the version parser and the        *)
(* top-level libc_version().                                               *)
(*                                                                         *)
(* Conventions.  An Option<T> is a sequence of length at most one: None is *)
(* <<>> and Some(x) is <<x>>.  A text is a sequence of one-character       *)
(* strings; a byte that is not valid UTF-8 is the token InvalidByte.       *)
(***************************************************************************)
EXTENDS Integers, Sequences, FiniteSets, TLC

None == <<>>
Some(x) == <<x>>

\* ------------------------------------------------------------------------
\* Texts
\* ------------------------------------------------------------------------

\* A byte that is no valid UTF-8, and the character U+FFFD that replaces it.
InvalidByte == "<FF>"
ReplacementChar == "<FFFD>"

\* The characters str::trim removes (White_Space), as far as they occur here.
Whitespace == {" ", "\n", "\t", "\r"}

Digits == {"0", "1", "2", "3", "4", "5", "6", "7", "8", "9"}

\* char::to_digit(10) of a decimal digit.
DigitVal(c) ==
  CASE c = "0" -> 0 [] c = "1" -> 1 [] c = "2" -> 2 [] c = "3" -> 3
    [] c = "4" -> 4 [] c = "5" -> 5 [] c = "6" -> 6 [] c = "7" -> 7
    [] c = "8" -> 8 [] c = "9" -> 9

\* A u32 is kept as the pair <<v \div 100000, v % 100000>> of its value v, so
\* that values up to u32::MAX stay within 32-bit signed integers.
U32(n) == <<n \div 100000, n % 100000>>

\* u32::MAX = 4294967295
U32_MAX == <<42949, 67295>>

\* a <= b on u32 values.
U32Le(a, b) == a[1] < b[1] \/ (a[1] = b[1] /\ a[2] <= b[2])

\* String::from_utf8_lossy: every invalid byte becomes U+FFFD.
FromUtf8Lossy(bytes) ==
  [i \in DOMAIN bytes |-> IF bytes[i] = InvalidByte THEN ReplacementChar ELSE bytes[i]]

\* A text, and the values a recursive definition below is applied to.  The
\* recursive definitions are functions, so that their arguments are values.
Text == Seq(STRING)

\* str::trim_start: drop leading whitespace.
TrimStart[s \in Text] ==
  IF s # <<>> /\ Head(s) \in Whitespace THEN TrimStart[Tail(s)] ELSE s

\* str::trim_end: drop trailing whitespace.
TrimEnd[s \in Text] ==
  IF s # <<>> /\ s[Len(s)] \in Whitespace THEN TrimEnd[SubSeq(s, 1, Len(s) - 1)] ELSE s

\* str::trim
Trim(s) == TrimEnd[TrimStart[s]]

\* str::split(c) collected: the segments between occurrences of c; a text
\* without c is one segment, and the empty text is one empty segment.
SplitAcc[s \in Text, c \in STRING, cur \in Text] ==
  IF s = <<>> THEN <<cur>>
  ELSE IF Head(s) = c THEN <<cur>> \o SplitAcc[Tail(s), c, <<>>]
  ELSE SplitAcc[Tail(s), c, Append(cur, Head(s))]

Split(s, c) == SplitAcc[s, c, <<>>]

\* The digit loop of u32::from_str: checked_mul(10) then checked_add(digit);
\* an invalid digit or an overflow past u32::MAX is an error (None).
ParseDigits[ds \in Text, acc \in Nat \X Nat] ==
  IF ds = <<>> THEN Some(acc)
  ELSE IF Head(ds) \notin Digits THEN None
  ELSE LET low == acc[2] * 10 + DigitVal(Head(ds))
           next == <<acc[1] * 10 + low \div 100000, low % 100000>>
       IN IF ~ U32Le(next, U32_MAX) THEN None ELSE ParseDigits[Tail(ds), next]
\* x reduced modulo 2^32, for x below 10 * 2^32.
WrapU32[x \in Nat \X Nat] ==
  IF U32Le(x, U32_MAX) THEN x
  ELSE IF x[2] >= 67296 THEN WrapU32[<<x[1] - 42949, x[2] - 67296>>]
  ELSE WrapU32[<<x[1] - 42950, x[2] + 100000 - 67296>>]

\* The digit loop with wrapping_mul and wrapping_add in place of the checked
\* operations.
ParseDigitsWrapping[ds \in Text, acc \in Nat \X Nat] ==
  IF ds = <<>> THEN Some(acc)
  ELSE IF Head(ds) \notin Digits THEN None
  ELSE LET low == acc[2] * 10 + DigitVal(Head(ds))
           next == <<acc[1] * 10 + low \div 100000, low % 100000>>
       IN ParseDigitsWrapping[Tail(ds), WrapU32[next]]

\* str::parse::<u32> with the overflow wrapped around.
ParseU32_Wrapping(src) ==
  IF src = <<>> THEN None
  ELSE IF Len(src) = 1 /\ Head(src) \in {"+", "-"} THEN None
  ELSE IF Head(src) = "+" THEN ParseDigitsWrapping[Tail(src), U32(0)]
  ELSE ParseDigitsWrapping[src, U32(0)]

\* str::parse::<u32>: empty is an error, a lone sign is an error, a leading
\* '+' is skipped, '-' is no digit of an unsigned type.
ParseU32(src) ==
  IF src = <<>> THEN None
  ELSE IF Len(src) = 1 /\ Head(src) \in {"+", "-"} THEN None
  ELSE IF Head(src) = "+" THEN ParseDigits[Tail(src), U32(0)]
  ELSE ParseDigits[src, U32(0)]

\* parse_major_minor_version with the trim left out.
ParseMajorMinorVersion_NoTrim(version) ==
  LET segment_iter == Split(version, ".")
      major == ParseU32(segment_iter[1])
  IN IF major = None THEN None
     ELSE IF Len(segment_iter) < 2 THEN None
     ELSE LET minor == ParseU32(segment_iter[2])
          IN IF minor = None THEN None ELSE Some(<<major[1], minor[1]>>)

\* parse_major_minor_version: trim, split on '.', the first segment parsed
\* as u32 (`?` returns None), then the second, the rest never looked at.
ParseMajorMinorVersion(version) ==
  LET segment_iter == Split(Trim(version), ".")
      major == ParseU32(segment_iter[1])
  IN IF major = None THEN None
     ELSE IF Len(segment_iter) < 2 THEN None
     ELSE LET minor == ParseU32(segment_iter[2])
          IN IF minor = None THEN None ELSE Some(<<major[1], minor[1]>>)

\* The lines of a text already split on '\n': the segment after the last
\* '\n' is a line unless it is empty; a line that a '\n' ended loses one
\* '\r' before it.
LinesOf[raw \in Seq(Text)] ==
  [i \in 1..(IF raw[Len(raw)] = <<>> THEN Len(raw) - 1 ELSE Len(raw)) |->
     IF i < Len(raw) /\ raw[i] # <<>> /\ raw[i][Len(raw[i])] = "\r"
     THEN SubSeq(raw[i], 1, Len(raw[i]) - 1) ELSE raw[i]]

\* str::lines: the text cut after every '\n'; a line loses its '\n' and then
\* a '\r' before it; text after the last '\n' is a line of its own, kept as
\* it is; the empty text has no line.
Lines(text) == LinesOf[Split(text, "\n")]

\* str::strip_prefix
StripPrefix(l, prefix) ==
  IF Len(l) >= Len(prefix) /\ SubSeq(l, 1, Len(prefix)) = prefix
  THEN Some(SubSeq(l, Len(prefix) + 1, Len(l))) ELSE None

\* "Version "
VersionPrefix == <<"V", "e", "r", "s", "i", "o", "n", " ">>

\* Iterator::find_map(|l| l.strip_prefix("Version ")): the remainder of the
\* first line that has the prefix.
FindMapVersion[ls \in Seq(Text)] ==
  IF ls = <<>> THEN None
  ELSE IF StripPrefix(Head(ls), VersionPrefix) # None
       THEN StripPrefix(Head(ls), VersionPrefix)
       ELSE FindMapVersion[Tail(ls)]

\* ------------------------------------------------------------------------
\* The registry and the musl tag list
\* ------------------------------------------------------------------------

\* The values of target_arch the build may have; riscv64 stands for every
\* architecture without an embedded detector.
Targets == {"x86_64", "x86", "arm", "aarch64", "powerpc64", "s390x", "riscv64"}

\* glibc_detectors(): the (arch, payload) pairs pushed for the build's
\* target_arch, in push order.  A payload is named by its file.
glibc_detectors(t) ==
  (IF t \in {"x86_64", "x86"}
   THEN << [arch |-> "x86_64", payload |-> "glibc-detector-x86_64"],
           [arch |-> "i686", payload |-> "glibc-detector-i686"] >>
   ELSE <<>>)
  \o (IF t \in {"arm", "aarch64"}
      THEN << [arch |-> "aarch64", payload |-> "glibc-detector-aarch64"],
              [arch |-> "armv7l", payload |-> "glibc-detector-armv7l"] >>
      ELSE <<>>)
  \o (IF t = "powerpc64"
      THEN << [arch |-> "ppc64le", payload |-> "glibc-detector-ppc64le"] >>
      ELSE <<>>)
  \o (IF t = "s390x"
      THEN << [arch |-> "s390x", payload |-> "glibc-detector-s390x"] >>
      ELSE <<>>)

\* The array musl_libc_version() iterates over.
MuslArchs == <<"x86_64", "aarch64", "i386", "armhf", "powerpc64le", "s390x">>

\* format!("/lib/ld-musl-{arch}.so.1")
LoaderPath(arch) == <<"/lib/ld-musl-", arch, ".so.1">>

\* ------------------------------------------------------------------------
\* What a child process may print and how it may end
\* ------------------------------------------------------------------------

NL == <<"\n">>
MuslBanner ==
  <<"m", "u", "s", "l", " ", "l", "i", "b", "c", " ", "(", "x", "8", "6", "_", "6", "4", ")">>
UsageLine == <<"U", "s", "a", "g", "e", ":", " ", ".", ".", ".">>

\* "musl libc (x86_64)\nVersion 1.2.3\nUsage: ..."
MuslUsageText ==
  MuslBanner \o NL \o VersionPrefix \o <<"1", ".", "2", ".", "3">> \o NL \o UsageLine

\* The (stdout, stderr) pairs a child is let to produce.
ChildOutputs ==
  { [stdout |-> <<"2", ".", "3", "1", "\n">>, stderr |-> <<>>],
    [stdout |-> <<>>, stderr |-> MuslUsageText],
    [stdout |-> VersionPrefix \o <<"1", ".", "2", ".", "3", "\n">>, stderr |-> <<>>],
    [stdout |-> <<"2", ".", "1", "7">>,
     stderr |-> VersionPrefix \o <<"x", "\n">> \o VersionPrefix \o <<"1", ".", "2", ".", "5", "\n">>],
    [stdout |-> <<InvalidByte, "2", ".", "5">>,
     stderr |-> VersionPrefix \o <<"1", ".", "1", ".", "2", "4", "\r", "\n">>] }

\* ExitStatus::code(): Some(code), or None for a child a signal ended.
ExitCodes == {Some(0), Some(1), None}

\* ------------------------------------------------------------------------
\* State
\* ------------------------------------------------------------------------

VARIABLES
  target,       \* the build's target_arch
  loaders,      \* the indices of MuslArchs whose loader file exists
  memfd,        \* whether the host's kernel can execute an anonymous memory file
  pc,           \* the position of the calling thread
  gi,           \* glibc_version: index of the loop's current detector
  mi,           \* musl_libc_version: index of the loop's current arch
  f,            \* glibc_version: the temporary file's handle (Option fd)
  read_only_f,  \* glibc_version: the re-opened handle (Option fd)
  fdtable,      \* the process's open descriptors: [fd, ino, mode]
  inodes,       \* the live files of the temporary area: [ino, content, perm]
  child,        \* the spawned child process (Option)
  output,       \* the Output of Command::output() (Option)
  hist,         \* the attempts of this call, in order: [fam, idx, res]
  gres,         \* what glibc_version() returned
  mres,         \* what musl_libc_version() returned
  result,       \* what libc_version() returned
  arg,          \* parse_major_minor_version: its argument (Option text)
  ret,          \* parse_major_minor_version: its return value
  calls         \* the calls of libc_version() that have returned: [hist, gres, mres, result]

vars == <<target, loaders, memfd, pc, gi, mi, f, read_only_f, fdtable, inodes,
          child, output, hist, gres, mres, result, arg, ret, calls>>

host == <<target, loaders, memfd>>
handles == <<f, read_only_f, fdtable, inodes>>
frame == <<arg, ret>>

\* ------------------------------------------------------------------------
\* Descriptors and temporary files
\* ------------------------------------------------------------------------

\* The lowest number from `from` on that is not in `used`.
LowestFree(used, from) ==
  CHOOSE n \in from..(from + Cardinality(used)) :
    n \notin used /\ \A m \in from..(n - 1) : m \in used

FdsOf(table) == {e.fd : e \in table}

\* The table with the handles hs closed (a None handle closes nothing).
CloseIn(table, hs) == {e \in table : Some(e.fd) \notin hs}

\* An unnamed temporary file lives as long as a descriptor refers to it.
LiveIn(nodes, table) == {n \in nodes : \E e \in table : e.ino = n.ino}

InoOf(table, fd) == (CHOOSE e \in table : e.fd = fd).ino

\* ------------------------------------------------------------------------
\* Init
\* ------------------------------------------------------------------------

Init ==
  /\ target \in Targets
  /\ loaders \in SUBSET (1..Len(MuslArchs))
  /\ memfd \in BOOLEAN
  /\ calls = <<>>
  /\ pc = "g_loop"
  /\ gi = 1
  /\ mi = 1
  /\ f = None
  /\ read_only_f = None
  /\ fdtable = {}
  /\ inodes = {}
  /\ child = None
  /\ output = None
  /\ hist = <<>>
  /\ gres = None
  /\ mres = None
  /\ result = None
  /\ arg = None
  /\ ret = None

\* The attempt list with its last entry resolved as r.
Resolve(h, r) == [h EXCEPT ![Len(h)].res = r]

\* ------------------------------------------------------------------------
\* glibc_version()
\* ------------------------------------------------------------------------

\* `continue` with the failure unwrapped instead: the thread panics.
GContinue_Panics ==
  /\ pc' = "panicked"
  /\ UNCHANGED <<f, read_only_f, fdtable, inodes, output, hist, gi>>

\* `continue` with the re-opened handle leaked (its descriptor never closed).
GContinue_LeaksReadOnly ==
  /\ fdtable' = CloseIn(fdtable, {f})
  /\ inodes' = LiveIn(inodes, CloseIn(fdtable, {f}))
  /\ f' = None
  /\ read_only_f' = None
  /\ output' = None
  /\ hist' = Resolve(hist, "fail")
  /\ gi' = gi + 1
  /\ pc' = "g_loop"

\* `continue` that also skips the detector after the failed one.
GContinue_SkipsOne ==
  /\ fdtable' = CloseIn(fdtable, {f, read_only_f})
  /\ inodes' = LiveIn(inodes, CloseIn(fdtable, {f, read_only_f}))
  /\ f' = None
  /\ read_only_f' = None
  /\ output' = None
  /\ hist' = Resolve(hist, "fail")
  /\ gi' = gi + 2
  /\ pc' = "g_loop"
\* `continue` that ends the detector loop (a `break` in its place).
GContinue_StopsSearch ==
  /\ fdtable' = CloseIn(fdtable, {f, read_only_f})
  /\ inodes' = LiveIn(inodes, CloseIn(fdtable, {f, read_only_f}))
  /\ f' = None
  /\ read_only_f' = None
  /\ output' = None
  /\ hist' = Resolve(hist, "fail")
  /\ gi' = Len(glibc_detectors(target)) + 1
  /\ pc' = "g_loop"

\* `continue` in the detector loop: the iteration's locals (f, read_only_f,
\* output) go out of scope, which closes their descriptors, and the loop
\* moves to the next detector.
GContinue ==
  /\ fdtable' = CloseIn(fdtable, {f, read_only_f})
  /\ inodes' = LiveIn(inodes, CloseIn(fdtable, {f, read_only_f}))
  /\ f' = None
  /\ read_only_f' = None
  /\ output' = None
  /\ hist' = Resolve(hist, "fail")
  /\ gi' = gi + 1
  /\ pc' = "g_loop"
\* The detector loop with the payload executed from an anonymous memory file
\* on a host that can do so, and the temporary file as the fallback.
GLoop_PrefersMemfd ==
  /\ pc = "g_loop"
  /\ \/ /\ gi <= Len(glibc_detectors(target))
        /\ hist' = Append(hist, [fam |-> "glibc", idx |-> gi, res |-> "pending"])
        /\ \/ /\ memfd
              /\ child' = Some([image |-> glibc_detectors(target)[gi].payload,
                                args |-> <<>>, exited |-> FALSE, status |-> None,
                                stdout |-> <<>>, stderr |-> <<>>])
              /\ pc' = "g_wait"
           \/ /\ ~ memfd
              /\ pc' = "g_tempfile"
              /\ UNCHANGED child
        /\ UNCHANGED gres
     \/ /\ gi > Len(glibc_detectors(target))
        /\ gres' = None
        /\ pc' = "g_ret"
        /\ UNCHANGED <<hist, child>>
  /\ UNCHANGED <<host, calls, gi, mi, handles, output, mres, result, frame>>

\* for (arch, detector) in glibc_detectors(): the next detector, or the
\* `None` after the loop.
GLoop ==
  /\ pc = "g_loop"
  /\ \/ /\ gi <= Len(glibc_detectors(target))
        /\ hist' = Append(hist, [fam |-> "glibc", idx |-> gi, res |-> "pending"])
        /\ pc' = "g_tempfile"
        /\ UNCHANGED gres
     \/ /\ gi > Len(glibc_detectors(target))
        /\ gres' = None
        /\ pc' = "g_ret"
        /\ UNCHANGED hist
  /\ UNCHANGED <<host, calls, gi, mi, handles, child, output, mres, result, frame>>

\* tempfile::tempfile(): an unnamed file in the temporary area, open for
\* reading and writing, or an error.
GTempfile ==
  /\ pc = "g_tempfile"
  /\ \/ /\ LET fd == LowestFree(FdsOf(fdtable), 3)
               ino == LowestFree({n.ino : n \in inodes}, 1)
           IN /\ fdtable' = fdtable \cup {[fd |-> fd, ino |-> ino, mode |-> "rw"]}
              /\ inodes' = inodes \cup {[ino |-> ino, content |-> "", perm |-> "0o600"]}
              /\ f' = Some(fd)
        /\ pc' = "g_write"
        /\ UNCHANGED <<read_only_f, output, hist, gi>>
     \/ GContinue
  /\ UNCHANGED <<host, calls, mi, child, gres, mres, result, frame>>

\* f.write_all(detector)
GWrite ==
  /\ pc = "g_write"
  /\ \/ /\ inodes' = {IF n.ino = InoOf(fdtable, f[1])
                      THEN [n EXCEPT !.content = glibc_detectors(target)[gi].payload]
                      ELSE n : n \in inodes}
        /\ pc' = "g_chmod"
        /\ UNCHANGED <<f, read_only_f, fdtable, output, hist, gi>>
     \/ GContinue
  /\ UNCHANGED <<host, calls, mi, child, gres, mres, result, frame>>

\* f.set_permissions(PermissionsExt::from_mode(0o700))
GChmod ==
  /\ pc = "g_chmod"
  /\ \/ /\ inodes' = {IF n.ino = InoOf(fdtable, f[1])
                      THEN [n EXCEPT !.perm = "0o700"] ELSE n : n \in inodes}
        /\ pc' = "g_reopen"
        /\ UNCHANGED <<f, read_only_f, fdtable, output, hist, gi>>
     \/ GContinue
  /\ UNCHANGED <<host, calls, mi, child, gres, mres, result, frame>>

\* File::open(format!("/proc/self/fd/{}", f.as_raw_fd())): a second
\* descriptor, read-only, on the file f refers to.
GReopen ==
  /\ pc = "g_reopen"
  /\ \/ /\ LET fd == LowestFree(FdsOf(fdtable), 3)
           IN /\ fdtable' = fdtable \cup
                   {[fd |-> fd, ino |-> InoOf(fdtable, f[1]), mode |-> "r"]}
              /\ read_only_f' = Some(fd)
        /\ pc' = "g_drop"
        /\ UNCHANGED <<f, inodes, output, hist, gi>>
     \/ GContinue
  /\ UNCHANGED <<host, calls, mi, child, gres, mres, result, frame>>
\* drop(f) left out: the writable handle lives to the end of the iteration.
GDrop_KeepsWritable ==
  /\ pc = "g_drop"
  /\ pc' = "g_spawn"
  /\ UNCHANGED <<host, calls, gi, mi, handles, child, output, hist, gres, mres, result, frame>>

\* drop(f)
GDrop ==
  /\ pc = "g_drop"
  /\ fdtable' = CloseIn(fdtable, {f})
  /\ inodes' = LiveIn(inodes, CloseIn(fdtable, {f}))
  /\ f' = None
  /\ pc' = "g_spawn"
  /\ UNCHANGED <<host, calls, gi, mi, read_only_f, child, output, hist, gres, mres, result, frame>>

\* Whether execve of the file ino can succeed: it is executable and no
\* descriptor has it open for writing (ETXTBSY otherwise).
Executable(ino) ==
  /\ \E n \in inodes : n.ino = ino /\ n.perm = "0o700"
  /\ ~ \E e \in fdtable : e.ino = ino /\ e.mode = "rw"

\* Command::new(format!("/proc/self/fd/{}", read_only_f.as_raw_fd())).output(),
\* up to the spawn: a running child, or an error (NotFound or another kind),
\* which both match arms answer with `continue`.  The Command gets no arg().
GSpawn ==
  /\ pc = "g_spawn"
  /\ \/ /\ Executable(InoOf(fdtable, read_only_f[1]))
        /\ child' = Some([image |-> (CHOOSE n \in inodes :
                                        n.ino = InoOf(fdtable, read_only_f[1])).content,
                          args |-> <<>>, exited |-> FALSE, status |-> None,
                          stdout |-> <<>>, stderr |-> <<>>])
        /\ pc' = "g_wait"
        /\ UNCHANGED <<f, read_only_f, fdtable, inodes, output, hist, gi>>
     \/ /\ \E kind \in {"NotFound", "Other"} : GContinue
        /\ UNCHANGED child
  /\ UNCHANGED <<host, calls, mi, gres, mres, result, frame>>

\* The child process ends: an exit code (or none) and what it printed.
ChildExit ==
  /\ child # None
  /\ ~ child[1].exited
  /\ \E code \in ExitCodes, o \in ChildOutputs :
       child' = Some([child[1] EXCEPT !.exited = TRUE, !.status = code,
                                      !.stdout = o.stdout, !.stderr = o.stderr])
  /\ UNCHANGED <<host, calls, pc, gi, mi, handles, output, hist, gres, mres, result, frame>>
\* output() with a timeout: a child that has not exited is given up and the
\* detector skipped.
GWait_TimesOut ==
  /\ pc = "g_wait"
  /\ child # None
  /\ \/ /\ child[1].exited
        /\ output' = Some([status |-> child[1].status, stdout |-> child[1].stdout,
                           stderr |-> child[1].stderr])
        /\ pc' = "g_status"
        /\ UNCHANGED <<gi, handles, hist>>
     \/ /\ ~ child[1].exited
        /\ GContinue
  /\ child' = None
  /\ UNCHANGED <<host, calls, mi, gres, mres, result, frame>>

\* output() returns once the child has exited.
GWait ==
  /\ pc = "g_wait"
  /\ child # None
  /\ child[1].exited
  /\ output' = Some([status |-> child[1].status, stdout |-> child[1].stdout,
                     stderr |-> child[1].stderr])
  /\ child' = None
  /\ pc' = "g_status"
  /\ UNCHANGED <<host, calls, gi, mi, handles, hist, gres, mres, result, frame>>

\* The status check with a child that a signal ended taken for a success
\* (code().unwrap_or(0) != 0).
GStatus_NoCodeIsSuccess ==
  /\ pc = "g_status"
  /\ \/ /\ output[1].status \notin {Some(0), None}
        /\ GContinue
     \/ /\ output[1].status \in {Some(0), None}
        /\ pc' = "g_parse"
        /\ UNCHANGED <<f, read_only_f, fdtable, inodes, output, hist, gi>>
  /\ UNCHANGED <<host, calls, mi, child, gres, mres, result, frame>>

\* if output.status.code() != Some(0) { continue }
GStatus ==
  /\ pc = "g_status"
  /\ \/ /\ output[1].status # Some(0)
        /\ GContinue
     \/ /\ output[1].status = Some(0)
        /\ pc' = "g_parse"
        /\ UNCHANGED <<f, read_only_f, fdtable, inodes, output, hist, gi>>
  /\ UNCHANGED <<host, calls, mi, child, gres, mres, result, frame>>

\* parse_major_minor_version(&String::from_utf8_lossy(&output.stdout)): the call.
GParse ==
  /\ pc = "g_parse"
  /\ arg' = Some(FromUtf8Lossy(output[1].stdout))
  /\ ret' = None
  /\ pc' = "g_parsing"
  /\ UNCHANGED <<host, calls, gi, mi, handles, child, output, hist, gres, mres, result>>

\* The body of parse_major_minor_version on the argument of the call.
ParseRun ==
  /\ pc \in {"g_parsing", "m_parsing", "p_call"}
  /\ ret' = ParseMajorMinorVersion(arg[1])
  /\ pc' = CASE pc = "g_parsing" -> "g_parsed"
             [] pc = "m_parsing" -> "m_parsed"
             [] pc = "p_call" -> "p_ret"
  /\ UNCHANGED <<host, calls, gi, mi, handles, child, output, hist, gres, mres, result, arg>>

\* let Some((major, minor)) = ... else { continue }; return Some((major, minor))
GParsed ==
  /\ pc = "g_parsed"
  /\ \/ /\ ret = None
        /\ GContinue
        /\ UNCHANGED gres
     \/ /\ ret # None
        /\ gres' = ret
        /\ fdtable' = CloseIn(fdtable, {f, read_only_f})
        /\ inodes' = LiveIn(inodes, CloseIn(fdtable, {f, read_only_f}))
        /\ f' = None
        /\ read_only_f' = None
        /\ output' = None
        /\ hist' = Resolve(hist, "ok")
        /\ pc' = "g_ret"
        /\ UNCHANGED gi
  /\ arg' = None
  /\ ret' = None
  /\ UNCHANGED <<host, calls, mi, child, mres, result>>

\* ------------------------------------------------------------------------
\* musl_libc_version()
\* ------------------------------------------------------------------------

\* `continue` replaced by a retry of the same loader.
MContinue_Retries ==
  /\ output' = None
  /\ hist' = Resolve(hist, "fail")
  /\ mi' = mi
  /\ pc' = "m_exists"

\* `continue` that does not move to the next arch.
MContinue_SameArch ==
  /\ output' = None
  /\ hist' = Resolve(hist, "fail")
  /\ mi' = mi
  /\ pc' = "m_loop"

\* `continue` in the arch loop.
MContinue ==
  /\ output' = None
  /\ hist' = Resolve(hist, "fail")
  /\ mi' = mi + 1
  /\ pc' = "m_loop"

\* for arch in [...]: the next arch, or the `None` after the loop.
MLoop ==
  /\ pc = "m_loop"
  /\ \/ /\ mi <= Len(MuslArchs)
        /\ hist' = Append(hist, [fam |-> "musl", idx |-> mi, res |-> "pending"])
        /\ pc' = "m_exists"
        /\ UNCHANGED mres
     \/ /\ mi > Len(MuslArchs)
        /\ mres' = None
        /\ pc' = "m_ret"
        /\ UNCHANGED hist
  /\ UNCHANGED <<host, calls, gi, mi, handles, child, output, gres, result, frame>>
\* The loader executed without the exists() test before it.
MExists_SpawnsMissing ==
  /\ pc = "m_exists"
  /\ pc' = "m_spawn"
  /\ UNCHANGED <<output, hist, mi>>
  /\ UNCHANGED <<host, calls, gi, handles, child, gres, mres, result, frame>>

\* if !loader.exists() { continue }
MExists ==
  /\ pc = "m_exists"
  /\ \/ /\ mi \notin loaders
        /\ MContinue
     \/ /\ mi \in loaders
        /\ pc' = "m_spawn"
        /\ UNCHANGED <<output, hist, mi>>
  /\ UNCHANGED <<host, calls, gi, handles, child, gres, mres, result, frame>>

\* Command::new(loader).output(), up to the spawn: a running child, or
\* Err(e), answered with `continue`.  The Command gets no arg().
MSpawn ==
  /\ pc = "m_spawn"
  /\ \/ /\ child' = Some([image |-> LoaderPath(MuslArchs[mi]),
                          args |-> <<>>, exited |-> FALSE, status |-> None,
                          stdout |-> <<>>, stderr |-> <<>>])
        /\ pc' = "m_wait"
        /\ UNCHANGED <<output, hist, mi>>
     \/ /\ MContinue
        /\ UNCHANGED child
  /\ UNCHANGED <<host, calls, gi, handles, gres, mres, result, frame>>

\* output() returns once the child has exited.
MWait ==
  /\ pc = "m_wait"
  /\ child # None
  /\ child[1].exited
  /\ output' = Some([status |-> child[1].status, stdout |-> child[1].stdout,
                     stderr |-> child[1].stderr])
  /\ child' = None
  /\ pc' = "m_extract"
  /\ UNCHANGED <<host, calls, gi, mi, handles, hist, gres, mres, result, frame>>

\* The text the version is looked for in, with the status consulted first.
MuslVersionLine_StatusChecked(out) ==
  IF out.status # Some(0) THEN None
  ELSE FindMapVersion[Lines(FromUtf8Lossy(out.stderr))]

\* The text the version is looked for in taken from standard output.
MuslVersionLine_Stdout(out) == FindMapVersion[Lines(FromUtf8Lossy(out.stdout))]
\* The first remainder of ls that parses, or None (the lines with the prefix
\* tried one after the other).
FirstParsable[ls \in Seq(Text)] ==
  IF ls = <<>> THEN None
  ELSE IF /\ StripPrefix(Head(ls), VersionPrefix) # None
          /\ ParseMajorMinorVersion(StripPrefix(Head(ls), VersionPrefix)[1]) # None
       THEN StripPrefix(Head(ls), VersionPrefix)
       ELSE FirstParsable[Tail(ls)]

\* The version looked for in every line with the prefix until one parses;
\* without such a line, the first line with the prefix.
MuslVersionLine_AnyParsable(out) ==
  IF FirstParsable[Lines(FromUtf8Lossy(out.stderr))] # None
  THEN FirstParsable[Lines(FromUtf8Lossy(out.stderr))]
  ELSE FindMapVersion[Lines(FromUtf8Lossy(out.stderr))]

\* String::from_utf8_lossy(&output.stderr).lines()
\*   .find_map(|l| l.strip_prefix("Version "))
MuslVersionLine(out) == FindMapVersion[Lines(FromUtf8Lossy(out.stderr))]

\* ....and_then(parse_major_minor_version): what an executed loader's Output
\* yields.
MuslOutcome(out) ==
  IF MuslVersionLine(out) = None THEN None
  ELSE ParseMajorMinorVersion(MuslVersionLine(out)[1])

\* .and_then(parse_major_minor_version): the parser is called on the line
\* found; without a line the let-else takes `continue`.
MExtract ==
  /\ pc = "m_extract"
  /\ \/ /\ MuslVersionLine(output[1]) = None
        /\ MContinue
        /\ UNCHANGED frame
     \/ /\ MuslVersionLine(output[1]) # None
        /\ arg' = MuslVersionLine(output[1])
        /\ ret' = None
        /\ pc' = "m_parsing"
        /\ UNCHANGED <<output, hist, mi>>
  /\ UNCHANGED <<host, calls, gi, handles, child, gres, mres, result>>

\* let Some((major, minor)) = ... else { continue }; return Some((major, minor))
MParsed ==
  /\ pc = "m_parsed"
  /\ \/ /\ ret = None
        /\ MContinue
        /\ UNCHANGED mres
     \/ /\ ret # None
        /\ mres' = ret
        /\ output' = None
        /\ hist' = Resolve(hist, "ok")
        /\ pc' = "m_ret"
        /\ UNCHANGED mi
  /\ arg' = None
  /\ ret' = None
  /\ UNCHANGED <<host, calls, gi, handles, child, gres, result>>

\* ------------------------------------------------------------------------
\* libc_version()
\* ------------------------------------------------------------------------

\* libc_version() that asks musl_libc_version() whatever glibc_version()
\* returned.
LibcGlibc_MuslFirst ==
  /\ pc = "g_ret"
  /\ pc' = "m_loop"
  /\ UNCHANGED result
  /\ UNCHANGED <<host, calls, gi, mi, handles, child, output, hist, gres, mres, frame>>

\* if let Some(version) = glibc_version() { return Some(GLibC, version) }
LibcGlibc ==
  /\ pc = "g_ret"
  /\ \/ /\ gres # None
        /\ result' = Some([family |-> "GLibC", version |-> gres[1]])
        /\ pc' = "done"
     \/ /\ gres = None
        /\ pc' = "m_loop"
        /\ UNCHANGED result
  /\ UNCHANGED <<host, calls, gi, mi, handles, child, output, hist, gres, mres, frame>>
\* libc_version() without its musl branch: absent whatever
\* musl_libc_version() returned.
LibcMusl_DropsMusl ==
  /\ pc = "m_ret"
  /\ result' = None
  /\ pc' = "done"
  /\ UNCHANGED <<host, calls, gi, mi, handles, child, output, hist, gres, mres, frame>>

\* if let Some(version) = musl_libc_version() { return Some(Musl, version) }
\* None
LibcMusl ==
  /\ pc = "m_ret"
  /\ \/ /\ mres # None
        /\ result' = Some([family |-> "Musl", version |-> mres[1]])
     \/ /\ mres = None
        /\ result' = None
  /\ pc' = "done"
  /\ UNCHANGED <<host, calls, gi, mi, handles, child, output, hist, gres, mres, frame>>

\* ------------------------------------------------------------------------
\* Specifications
\* ------------------------------------------------------------------------

Next ==
  \/ GLoop \/ GTempfile \/ GWrite \/ GChmod \/ GReopen \/ GDrop \/ GSpawn
  \/ GWait \/ GStatus \/ GParse \/ GParsed
  \/ MLoop \/ MExists \/ MSpawn \/ MWait \/ MExtract \/ MParsed
  \/ ParseRun \/ ChildExit
  \/ LibcGlibc \/ LibcMusl

\* One call of libc_version() on any host.
Spec == Init /\ [][Next]_vars

\* The steps of the calling thread, which runs whenever it is not blocked.
Thread ==
  \/ GLoop \/ GTempfile \/ GWrite \/ GChmod \/ GReopen \/ GDrop \/ GSpawn
  \/ GWait \/ GStatus \/ GParse \/ GParsed
  \/ MLoop \/ MExists \/ MSpawn \/ MWait \/ MExtract \/ MParsed
  \/ ParseRun
  \/ LibcGlibc \/ LibcMusl

\* The call under the proviso that every spawned child eventually exits.
FairSpec == Spec /\ WF_vars(Thread) /\ WF_vars(ChildExit)

\* libc_version() called with the index of the detector loop kept from the
\* call before (a static in place of the loop's own iterator).
CallAgain_KeepsIndex ==
  /\ pc = "done"
  /\ calls = <<>>
  /\ calls' = <<[hist |-> hist, gres |-> gres, mres |-> mres, result |-> result]>>
  /\ pc' = "g_loop"
  /\ gi' = gi
  /\ mi' = 1
  /\ f' = None
  /\ read_only_f' = None
  /\ output' = None
  /\ hist' = <<>>
  /\ gres' = None
  /\ mres' = None
  /\ result' = None
  /\ arg' = None
  /\ ret' = None
  /\ UNCHANGED <<host, fdtable, inodes, child>>

\* The caller calls libc_version() once more after it has returned.  What the
\* functions keep is in locals only, which every call creates anew: the
\* iterators of both loops, f, read_only_f, output and the values returned.
\* The process's descriptor table and the temporary area are what they are.
CallAgain ==
  /\ pc = "done"
  /\ calls = <<>>
  /\ calls' = <<[hist |-> hist, gres |-> gres, mres |-> mres, result |-> result]>>
  /\ pc' = "g_loop"
  /\ gi' = 1
  /\ mi' = 1
  /\ f' = None
  /\ read_only_f' = None
  /\ output' = None
  /\ hist' = <<>>
  /\ gres' = None
  /\ mres' = None
  /\ result' = None
  /\ arg' = None
  /\ ret' = None
  /\ UNCHANGED <<host, fdtable, inodes, child>>

NextTwo == Next \/ CallAgain

\* Two calls of libc_version(), one after the other, on any host.
SpecTwo == Init /\ [][NextTwo]_vars

\* ------------------------------------------------------------------------
\* The parser on its own: parse_major_minor_version applied to one text
\* ------------------------------------------------------------------------

\* The longest text enumerated over ParseAlphabet.
MaxLen == 4

ParseAlphabet == {"0", "1", "2", ".", " ", "\n", "a", "+", "-"}

\* The texts section 8 of the specification names, and texts around u32::MAX.
ParseExamples ==
  { <<"2", ".", "3", "1">>,
    <<" ", " ", "5", ".", "1", "0", ".", "3", " ">>,
    <<"7">>,
    <<"a", "b", "c", ".", "d", "e", "f">>,
    <<>>,
    <<"2", ".", "3", "1", "-", "r", "c", "1">>,
    <<"4", "2", "9", "4", "9", "6", "7", "2", "9", "5", ".", "0">>,
    <<"4", "2", "9", "4", "9", "6", "7", "2", "9", "6", ".", "0">>,
    <<"1", ".", "4", "2", "9", "4", "9", "6", "7", "2", "9", "6">>,
    <<"0", "0", "0", "0", "0", "0", "0", "0", "0", "0", "0", "7", ".", "0", "9">>,
    <<"9", "9", "9", "9", "9", "9", "9", "9", "9", "9", "9", ".", "1">> }

ParseInputs ==
  ParseExamples \cup UNION {[1..n -> ParseAlphabet] : n \in 0..MaxLen}

InitParse ==
  /\ target = "riscv64"
  /\ loaders = {}
  /\ memfd = FALSE
  /\ calls = <<>>
  /\ pc = "p_call"
  /\ gi = 1
  /\ mi = 1
  /\ f = None
  /\ read_only_f = None
  /\ fdtable = {}
  /\ inodes = {}
  /\ child = None
  /\ output = None
  /\ hist = <<>>
  /\ gres = None
  /\ mres = None
  /\ result = None
  /\ arg \in {Some(t) : t \in ParseInputs}
  /\ ret = None

NextParse == ParseRun

\* parse_major_minor_version called once on any of ParseInputs.
SpecParse == InitParse /\ [][NextParse]_vars

\* ------------------------------------------------------------------------
\* C3: the parser against the reference parser
\* ------------------------------------------------------------------------

\* The text without its surrounding whitespace: from its first to its last
\* character that is no whitespace.
RefTrimmed(s) ==
  LET solid == {i \in DOMAIN s : s[i] \notin Whitespace}
  IN IF solid = {} THEN <<>>
     ELSE SubSeq(s, CHOOSE i \in solid : \A j \in solid : i <= j,
                    CHOOSE i \in solid : \A j \in solid : j <= i)

\* The value of a digit string read as a decimal numeral (short strings only).
RECURSIVE RefDecimal(_)
RefDecimal(ds) ==
  IF ds = <<>> THEN 0
  ELSE RefDecimal(SubSeq(ds, 1, Len(ds) - 1)) * 10 + DigitVal(ds[Len(ds)])

\* A segment read as a non-negative integer of 32 bits: decimal digits, at
\* least one, after an optional '+'; the value is at most 2^32 - 1.  None when
\* the segment is no such integer.
RefInteger(seg) ==
  LET body == IF seg # <<>> /\ seg[1] = "+" THEN Tail(seg) ELSE seg
      nonzero == {i \in DOMAIN body : body[i] # "0"}
      sig == IF nonzero = {} THEN <<>>
             ELSE SubSeq(body, CHOOSE i \in nonzero : \A j \in nonzero : i <= j, Len(body))
      high == IF Len(sig) > 5 THEN SubSeq(sig, 1, Len(sig) - 5) ELSE <<>>
      low == IF Len(sig) > 5 THEN SubSeq(sig, Len(sig) - 4, Len(sig)) ELSE sig
  IN IF body = <<>> \/ \E i \in DOMAIN body : body[i] \notin Digits THEN None
     ELSE IF Len(sig) > 10 THEN None
     ELSE IF RefDecimal(high) > 42949 THEN None
     ELSE IF RefDecimal(high) = 42949 /\ RefDecimal(low) > 67295 THEN None
     ELSE Some(<<RefDecimal(high), RefDecimal(low)>>)

\* The reference parser: trim, split on '.', read the first two segments as
\* integers; absent with fewer than two segments or a segment that is no
\* integer; later segments are not looked at.
RefParse(s) ==
  LET t == RefTrimmed(s)
      dots == {i \in DOMAIN t : t[i] = "."}
      d1 == CHOOSE i \in dots : \A j \in dots : i <= j
      later == dots \ {d1}
      d2 == IF later = {} THEN Len(t) + 1
            ELSE CHOOSE i \in later : \A j \in later : i <= j
  IN IF dots = {} THEN None
     ELSE LET major == RefInteger(SubSeq(t, 1, d1 - 1))
              minor == RefInteger(SubSeq(t, d1 + 1, d2 - 1))
          IN IF major = None \/ minor = None THEN None
             ELSE Some(<<major[1], minor[1]>>)

\* C3: on every input text parse_major_minor_version returns what the
\* reference parser returns: the first two '.'-separated segments of the
\* trimmed text as integers, absent with fewer than two segments or a segment
\* that is no integer, later segments ignored.  "2.31" gives (2,31),
\* "  5.10.3 " gives (5,10), and "7", "abc.def" and "" give absent.
C3_ParserAgreesWithReference ==
  pc \in {"p_ret", "g_parsed", "m_parsed"} =>
    /\ ret = RefParse(arg[1])
    /\ arg[1] = <<"2", ".", "3", "1">> => ret = Some(<<U32(2), U32(31)>>)
    /\ arg[1] = <<" ", " ", "5", ".", "1", "0", ".", "3", " ">>
         => ret = Some(<<U32(5), U32(10)>>)
    /\ arg[1] \in {<<"7">>, <<"a", "b", "c", ".", "d", "e", "f">>, <<>>} => ret = None

\* The parser has returned (5,10) for "  5.10.3 ".
C3_Witness ==
  /\ pc = "p_ret"
  /\ arg[1] = <<" ", " ", "5", ".", "1", "0", ".", "3", " ">>
  /\ ret = Some(<<U32(5), U32(10)>>)

\* ------------------------------------------------------------------------
\* Vocabulary of the properties
\* ------------------------------------------------------------------------

\* The registry of this build.
Registry == glibc_detectors(target)

\* The positions of glibc_version() inside one detector attempt.
GlibcAttemptPcs ==
  {"g_write", "g_chmod", "g_reopen", "g_drop", "g_spawn", "g_wait", "g_status",
   "g_parse", "g_parsing", "g_parsed"}

\* The positions after glibc_version() has returned.
AfterGlibcPcs ==
  {"g_ret", "m_loop", "m_exists", "m_spawn", "m_wait", "m_extract", "m_parsing",
   "m_parsed", "m_ret", "done"}

\* The positions of musl_libc_version().
MuslPcs ==
  {"m_loop", "m_exists", "m_spawn", "m_wait", "m_extract", "m_parsing", "m_parsed"}

\* The attempts made on glibc detectors so far.
GlibcAttempts == {k \in DOMAIN hist : hist[k].fam = "glibc"}

\* A (major, minor) pair of u32 values.
IsVersion(v) ==
  /\ Len(v) = 2
  /\ \A i \in 1..2 :
       /\ v[i][1] >= 0
       /\ v[i][2] \in 0..99999
       /\ U32Le(v[i], U32_MAX)

\* Every detector of the registry was attempted and failed.
AllGlibcFailed ==
  \A i \in 1..Len(Registry) :
    \E k \in DOMAIN hist : hist[k] = [fam |-> "glibc", idx |-> i, res |-> "fail"]

\* ------------------------------------------------------------------------
\* C1
\* ------------------------------------------------------------------------

\* C1: libc_version() returns at most one result, and glibc takes priority:
\* whenever glibc_version() returned a version, the result is family GLibC
\* with that version, whatever musl loaders the host has; family Musl is
\* returned only when every glibc detector was attempted and failed.
C1_GlibcPriority ==
  pc = "done" =>
    /\ Len(result) <= 1
    /\ gres # None => result = Some([family |-> "GLibC", version |-> gres[1]])
    /\ (\E k \in GlibcAttempts : hist[k].res = "ok")
         => (result # None /\ result[1].family = "GLibC")
    /\ (result # None /\ result[1].family = "Musl")
         => (gres = None /\ mres # None /\ AllGlibcFailed)

\* libc_version() has returned GLibC on a host that has musl loaders.
C1_Witness ==
  /\ pc = "done"
  /\ result # None
  /\ result[1].family = "GLibC"
  /\ loaders # {}

\* ------------------------------------------------------------------------
\* C2
\* ------------------------------------------------------------------------

\* C2: no failure of an attempt is surfaced: whatever the attempts' outcomes,
\* the thread is never stopped before the call has returned, each of
\* glibc_version(), musl_libc_version() and libc_version() returns a version
\* or absent, and when no attempt of either family succeeded libc_version()
\* returns absent.
C2_NoFailureSurfaced ==
  /\ pc # "done" => ENABLED Next
  /\ pc \in AfterGlibcPcs => (gres = None \/ (Len(gres) = 1 /\ IsVersion(gres[1])))
  /\ pc \in {"m_ret", "done"} => (mres = None \/ (Len(mres) = 1 /\ IsVersion(mres[1])))
  /\ pc = "done" =>
       /\ \/ result = None
          \/ /\ Len(result) = 1
             /\ result[1].family \in {"GLibC", "Musl"}
             /\ IsVersion(result[1].version)
       /\ (\A k \in DOMAIN hist : hist[k].res = "fail") => result = None

\* libc_version() has returned absent after every detector of a registry of
\* two and every musl arch failed, on a host with musl loaders.
C2_Witness ==
  /\ pc = "done"
  /\ result = None
  /\ Len(Registry) = 2
  /\ loaders # {}
  /\ Len(hist) = Len(Registry) + Len(MuslArchs)
  /\ \A k \in DOMAIN hist : hist[k].res = "fail"

\* ------------------------------------------------------------------------
\* C4
\* ------------------------------------------------------------------------

\* C4: in glibc_version() the parser is called only on the output of a child
\* that exited with status zero; after any other termination the detector is
\* skipped: the loop moves on, nothing is parsed and nothing is returned,
\* even when the standard output is a well-formed version.
C4_OnlyExitZeroCounts ==
  /\ [](pc \in {"g_parse", "g_parsing", "g_parsed"} => output[1].status = Some(0))
  /\ [][(pc = "g_status" /\ output[1].status # Some(0))
          => /\ pc' = "g_loop"
             /\ gi' = gi + 1
             /\ hist' = Resolve(hist, "fail")
             /\ arg' = None
             /\ gres' = None]_vars

\* A detector has ended without status zero and printed a well-formed version.
C4_Witness ==
  /\ pc = "g_status"
  /\ output[1].status # Some(0)
  /\ ParseMajorMinorVersion(FromUtf8Lossy(output[1].stdout)) # None

\* ------------------------------------------------------------------------
\* C5
\* ------------------------------------------------------------------------

\* C5: in musl_libc_version() the exit status has no influence: for the
\* Output of an executed loader, the line found and the version parsed are
\* those of the same Output with any other exit status.
C5_MuslStatusIgnored ==
  /\ pc = "m_extract" =>
       \A code \in ExitCodes :
         MuslVersionLine([output[1] EXCEPT !.status = code]) = MuslVersionLine(output[1])
  /\ pc \in {"m_parsing", "m_parsed"} =>
       \A code \in ExitCodes :
         arg = MuslVersionLine([output[1] EXCEPT !.status = code])
  /\ pc = "m_parsed" =>
       \A code \in ExitCodes : ret = MuslOutcome([output[1] EXCEPT !.status = code])

\* A loader that did not exit with status zero has yielded version (1,2).
C5_Witness ==
  /\ pc = "m_parsed"
  /\ output[1].status # Some(0)
  /\ ret = Some(<<U32(1), U32(2)>>)

\* ------------------------------------------------------------------------
\* C6
\* ------------------------------------------------------------------------

\* The remainder of the first line of the text that starts with "Version ":
\* a line starts at the text's start and after every '\n', and ends before
\* the next '\n' (and a '\r' before that).
RefFirstVersionLine(text) ==
  LET starts == {i \in DOMAIN text : i = 1 \/ text[i - 1] = "\n"}
      hits == {i \in starts : /\ i + Len(VersionPrefix) - 1 <= Len(text)
                              /\ SubSeq(text, i, i + Len(VersionPrefix) - 1) = VersionPrefix}
      first == CHOOSE i \in hits : \A j \in hits : i <= j
      ends == {j \in first..Len(text) : text[j] = "\n"}
      nl == IF ends = {} THEN Len(text) + 1 ELSE CHOOSE j \in ends : \A k \in ends : j <= k
      last == IF nl <= Len(text) /\ text[nl - 1] = "\r" THEN nl - 2 ELSE nl - 1
  IN IF hits = {} THEN None
     ELSE Some(SubSeq(text, first + Len(VersionPrefix), last))

\* C6: in musl_libc_version() the version of an executed loader comes from
\* its standard error only: the parser is applied to the remainder of the
\* first stderr line that starts with "Version "; the stderr
\* "musl libc (x86_64)", "Version 1.2.3", "Usage: ..." gives (1,2); with no
\* such line the arch is skipped.
C6_VersionFromStderr ==
  /\ [](pc \in {"m_parsing", "m_parsed"}
          => arg = RefFirstVersionLine(FromUtf8Lossy(output[1].stderr)))
  /\ [](pc = "m_parsed" => ret = ParseMajorMinorVersion(arg[1]))
  /\ [](pc = "m_parsed" /\ output[1].stderr = MuslUsageText
          => ret = Some(<<U32(1), U32(2)>>))
  /\ [][(pc = "m_extract" /\ RefFirstVersionLine(FromUtf8Lossy(output[1].stderr)) = None)
          => /\ pc' = "m_loop"
             /\ mi' = mi + 1
             /\ hist' = Resolve(hist, "fail")
             /\ arg' = None]_vars

\* The loader printed the usage text on stderr and (1,2) was parsed from it.
C6_Witness ==
  /\ pc = "m_parsed"
  /\ output[1].stderr = MuslUsageText
  /\ arg = Some(<<"1", ".", "2", ".", "3">>)
  /\ ret = Some(<<U32(1), U32(2)>>)

\* ------------------------------------------------------------------------
\* C7
\* ------------------------------------------------------------------------

\* C7: what a detector attempt creates (the temporary file, its writable
\* handle, the re-opened handle) is released when the attempt ends, on every
\* path: at the start of the next attempt, at the return of glibc_version()
\* and from then on no descriptor is open and the temporary area holds no
\* file; within an attempt there is one file and at most its two handles.
C7_ResourcesReleased ==
  /\ pc \notin GlibcAttemptPcs =>
       /\ fdtable = {}
       /\ inodes = {}
       /\ f = None
       /\ read_only_f = None
  /\ pc \in GlibcAttemptPcs =>
       /\ Cardinality(inodes) = 1
       /\ FdsOf(fdtable) = {h[1] : h \in {f, read_only_f} \ {None}}

\* The second detector succeeded after the first failed, and nothing is left.
C7_Witness ==
  /\ pc = "g_ret"
  /\ gres # None
  /\ Len(hist) = 2
  /\ hist[1].res = "fail"
  /\ fdtable = {}
  /\ inodes = {}

\* ------------------------------------------------------------------------
\* C8
\* ------------------------------------------------------------------------

\* At most one attempt per registry entry, then at most one per musl arch.
AttemptsBounded ==
  /\ Len(hist) <= Len(Registry) + Len(MuslArchs)
  /\ \A k \in DOMAIN hist :
       /\ hist[k].fam = "glibc" => hist[k].idx \in 1..Len(Registry)
       /\ hist[k].fam = "musl" => hist[k].idx \in 1..Len(MuslArchs)
  /\ \A j, k \in DOMAIN hist :
       /\ (j # k /\ hist[j].fam = hist[k].fam) => hist[j].idx # hist[k].idx
       /\ (hist[j].fam = "glibc" /\ hist[k].fam = "musl") => j < k

\* C8: provided every spawned child eventually exits, a call of
\* libc_version() eventually returns; it makes at most one attempt per
\* registry entry and then at most one per musl arch; on a host without musl
\* loaders where no detector succeeds it returns absent.
C8_Terminates ==
  /\ <>(pc = "done")
  /\ []AttemptsBounded
  /\ []((pc = "done" /\ loaders = {} /\ ~ \E k \in GlibcAttempts : hist[k].res = "ok")
          => result = None)

\* The call has returned absent on a host without musl loaders, after both
\* detectors and all six archs were attempted.
C8_Witness ==
  /\ pc = "done"
  /\ result = None
  /\ loaders = {}
  /\ Len(Registry) = 2
  /\ Len(hist) = Len(Registry) + Len(MuslArchs)

\* ------------------------------------------------------------------------
\* C9
\* ------------------------------------------------------------------------

\* C9: glibc_version() tries the registry's entries in the registry's order
\* and the first success wins: the k-th attempt is on entry k and runs that
\* entry's payload, every entry before the current one failed, a success ends
\* the loop with the version parsed from that entry's output, absent is
\* returned only after every entry failed, and an empty registry returns
\* absent without an attempt.
C9_OrderFirstSuccessWins ==
  /\ [](\A k \in GlibcAttempts :
          /\ hist[k].idx = k
          /\ k < Cardinality(GlibcAttempts) => hist[k].res = "fail")
  /\ [](pc \in GlibcAttemptPcs \cup {"g_tempfile"}
          => /\ gi <= Len(Registry)
             /\ hist[Len(hist)] = [fam |-> "glibc", idx |-> gi, res |-> "pending"])
  /\ []((pc = "g_wait" /\ child # None)
          => /\ child[1].image = Registry[gi].payload
             /\ target \in {"x86_64", "x86"}
                  => Registry[gi].arch = (IF gi = 1 THEN "x86_64" ELSE "i686"))
  /\ [](pc \in AfterGlibcPcs
          => /\ gres # None =>
                  hist[Cardinality(GlibcAttempts)] =
                    [fam |-> "glibc", idx |-> Cardinality(GlibcAttempts), res |-> "ok"]
             /\ gres = None => AllGlibcFailed /\ Cardinality(GlibcAttempts) = Len(Registry)
             /\ Len(Registry) = 0 => gres = None /\ GlibcAttempts = {})
  /\ [][(pc = "g_parsed" /\ ret # None) => (gres' = ret /\ pc' = "g_ret")]_vars

\* glibc_version() has returned the version of the second entry after the
\* first entry failed.
C9_Witness ==
  /\ pc = "g_ret"
  /\ gres = Some(<<U32(2), U32(17)>>)
  /\ Len(hist) = 2
  /\ hist[1].res = "fail"
  /\ hist[2].res = "ok"

\* ------------------------------------------------------------------------
\* C10
\* ------------------------------------------------------------------------

\* The phase of a position: glibc detectors, musl loaders, returned.
Phase(p) == IF p = "done" THEN 3 ELSE IF p \in MuslPcs \cup {"m_ret"} THEN 2 ELSE 1

\* Attempt a comes before attempt b in the order glibc 1..n, musl 1..6.
Before(a, b) ==
  \/ a.fam = "glibc" /\ b.fam = "musl"
  \/ a.fam = b.fam /\ a.idx < b.idx

\* C10: libc_version() only moves forward through the glibc detectors, then
\* the musl archs, then its return: the phase and the indices never decrease,
\* an attempt begins only after every earlier attempt was resolved as a
\* failure and lies after all of them in the order, no musl loader is looked
\* at before every detector failed, and after the return nothing is attempted.
C10_ForwardOnly ==
  /\ [][/\ Phase(pc') >= Phase(pc)
        /\ gi' >= gi
        /\ mi' >= mi
        /\ Len(hist') >= Len(hist)
        /\ Len(hist') > Len(hist) =>
             /\ Len(hist') = Len(hist) + 1
             /\ \A k \in DOMAIN hist :
                  /\ hist'[k] = hist[k]
                  /\ hist[k].res = "fail"
                  /\ Before(hist[k], hist'[Len(hist')])
        /\ pc = "done" => (pc' = "done" /\ hist' = hist /\ child' = child /\ result' = result)
       ]_vars
  /\ []((pc \in MuslPcs \/ \E k \in DOMAIN hist : hist[k].fam = "musl")
          => (gres = None /\ AllGlibcFailed))
  /\ [](pc = "done" => child = None /\ \A k \in DOMAIN hist : hist[k].res # "pending")

\* The third musl arch is being attempted after two detectors and two archs
\* failed.
C10_Witness ==
  /\ pc = "m_spawn"
  /\ mi = 3
  /\ Len(hist) = 5
  /\ hist[5] = [fam |-> "musl", idx |-> 3, res |-> "pending"]

\* ------------------------------------------------------------------------
\* C11
\* ------------------------------------------------------------------------

\* The positions of a detector attempt at which it can fail: creating,
\* writing, chmod, re-opening, spawning, the exit status, the parse.
GlibcFailureSites ==
  {"g_tempfile", "g_write", "g_chmod", "g_reopen", "g_spawn", "g_status", "g_parsed"}

\* The step abandons the current detector and moves to the next one.
MovesToNextDetector ==
  /\ pc' = "g_loop"
  /\ gi' = gi + 1
  /\ hist' = Resolve(hist, "fail")
  /\ gres' = None
  /\ result' = None
  /\ child' = None

\* C11: a failed detector attempt never stops the search: an attempt ends
\* only at one of its failure sites, and there either with the version
\* parsed or by moving to the next detector; a non-zero exit and an
\* unparseable output move on; when a next detector exists it is what the
\* thread attempts next, so the second detector can produce the result after
\* the first one failed.
C11_FailureMovesOn ==
  /\ [][(pc \in GlibcAttemptPcs \cup {"g_tempfile"} /\ hist' # hist)
          => /\ pc \in GlibcFailureSites
             /\ MovesToNextDetector \/ (pc = "g_parsed" /\ ret # None)]_vars
  /\ [][(pc \in GlibcFailureSites /\ pc' \notin GlibcAttemptPcs \cup {"g_ret"})
          => MovesToNextDetector]_vars
  /\ [][(pc = "g_status" /\ output[1].status # Some(0)) => MovesToNextDetector]_vars
  /\ [][(pc = "g_parsed" /\ ret = None) => MovesToNextDetector]_vars
  /\ [][(pc = "g_loop" /\ gi <= Len(Registry))
          => /\ pc' = "g_tempfile"
             /\ hist' = Append(hist, [fam |-> "glibc", idx |-> gi, res |-> "pending"])]_vars
  /\ []((pc = "g_loop" /\ gi <= Len(Registry)) => ENABLED GLoop)
  /\ []((pc = "g_loop" /\ gi > 1)
          => /\ gi - 1 \in DOMAIN hist
             /\ hist[gi - 1] = [fam |-> "glibc", idx |-> gi - 1, res |-> "fail"])

\* On an x86 build the i686 detector produced the result after the x86_64
\* detector failed.
C11_Witness ==
  /\ pc = "done"
  /\ target = "x86"
  /\ Len(hist) = 2
  /\ hist[1] = [fam |-> "glibc", idx |-> 1, res |-> "fail"]
  /\ hist[2] = [fam |-> "glibc", idx |-> 2, res |-> "ok"]
  /\ result # None
  /\ result[1].family = "GLibC"

\* ------------------------------------------------------------------------
\* C12
\* ------------------------------------------------------------------------

\* The positions of a detector attempt from the spawn to the attempt's end.
FromSpawnPcs == {"g_spawn", "g_wait", "g_status", "g_parse", "g_parsing", "g_parsed"}

\* C12: in every detector attempt that reaches the spawn, when the child is
\* spawned the writable handle is closed and the read-only handle is open,
\* no descriptor of the process has the payload file open for writing, and
\* the read-only handle stays open on that file while the child runs and
\* until the attempt ends; the child runs the payload written to that file.
C12_ReadOnlyAtExec ==
  /\ pc \in FromSpawnPcs =>
       /\ f = None
       /\ read_only_f # None
       /\ \E e \in fdtable : e.fd = read_only_f[1] /\ e.mode = "r"
       /\ ~ \E e \in fdtable : e.mode = "rw"
       /\ \E n \in inodes :
            /\ n.ino = InoOf(fdtable, read_only_f[1])
            /\ n.content = Registry[gi].payload
            /\ n.perm = "0o700"
  /\ (child # None /\ pc \notin MuslPcs) =>
       /\ pc = "g_wait"
       /\ child[1].image = Registry[gi].payload
       /\ ~ \E e \in fdtable : e.ino = InoOf(fdtable, read_only_f[1]) /\ e.mode # "r"

\* A detector is running: its file is open through the re-opened descriptor
\* only, the writable one (the lower number) being closed.
C12_Witness ==
  /\ pc = "g_wait"
  /\ child # None
  /\ ~ child[1].exited
  /\ f = None
  /\ read_only_f = Some(4)
  /\ fdtable = {[fd |-> 4, ino |-> 1, mode |-> "r"]}

\* ------------------------------------------------------------------------
\* C13
\* ------------------------------------------------------------------------

\* The attempts made on musl loaders so far.
MuslAttempts == {k \in DOMAIN hist : hist[k].fam = "musl"}

\* The step abandons the current arch and moves to the next one.
MovesToNextArch ==
  /\ pc' = "m_loop"
  /\ mi' = mi + 1
  /\ hist' = Resolve(hist, "fail")
  /\ mres' = None
  /\ child' = None

\* C13: musl_libc_version() walks x86_64, aarch64, i386, armhf, powerpc64le,
\* s390x in that order; a process is spawned only for a tag whose file
\* /lib/ld-musl-<tag>.so.1 exists, and runs that file without arguments; a
\* missing loader, a spawn error, an output without version line and an
\* unparseable version move on to the next tag; the version returned is that
\* of the first tag that yields one, and absent is returned after all six
\* failed.  No loader file appears or disappears and no file is created.
C13_MuslWalk ==
  /\ [](MuslArchs = <<"x86_64", "aarch64", "i386", "armhf", "powerpc64le", "s390x">>)
  /\ [](\A k \in MuslAttempts :
          /\ hist[k].idx = k - Cardinality(GlibcAttempts)
          /\ k < Len(hist) => hist[k].res = "fail")
  /\ [](pc \in {"m_exists", "m_spawn", "m_wait", "m_extract", "m_parsing", "m_parsed"}
          => /\ mi \in 1..Len(MuslArchs)
             /\ hist[Len(hist)] = [fam |-> "musl", idx |-> mi, res |-> "pending"])
  /\ [](pc \in {"m_spawn", "m_wait", "m_extract", "m_parsing", "m_parsed"} => mi \in loaders)
  /\ []((child # None /\ pc \in MuslPcs)
          => /\ pc = "m_wait"
             /\ child[1].image = <<"/lib/ld-musl-", MuslArchs[mi], ".so.1">>
             /\ child[1].args = <<>>)
  /\ [][(pc = "m_exists" /\ mi \notin loaders) => MovesToNextArch]_vars
  /\ [][(pc \in {"m_spawn", "m_extract", "m_parsed"} /\ pc' \notin {"m_wait", "m_parsing", "m_ret"})
          => MovesToNextArch]_vars
  /\ [][(pc = "m_parsed" /\ ret = None) => MovesToNextArch]_vars
  /\ [][(pc = "m_parsed" /\ ret # None)
          => (mres' = ret /\ pc' = "m_ret" /\ hist' = Resolve(hist, "ok"))]_vars
  /\ [](pc = "m_ret"
          => /\ mres # None =>
                  /\ hist[Len(hist)].fam = "musl"
                  /\ hist[Len(hist)].res = "ok"
                  /\ hist[Len(hist)].idx \in loaders
             /\ mres = None =>
                  /\ Cardinality(MuslAttempts) = Len(MuslArchs)
                  /\ \A k \in MuslAttempts : hist[k].res = "fail")
  /\ [][loaders' = loaders]_vars
  /\ [](pc \in MuslPcs => (inodes = {} /\ fdtable = {}))

\* On a host with the x86_64 and the i386 loader, the x86_64 loader failed,
\* aarch64 has no loader, and the i386 loader gave the version returned.
C13_Witness ==
  /\ pc = "m_ret"
  /\ target = "riscv64"
  /\ loaders = {1, 3}
  /\ mres # None
  /\ hist = << [fam |-> "musl", idx |-> 1, res |-> "fail"],
               [fam |-> "musl", idx |-> 2, res |-> "fail"],
               [fam |-> "musl", idx |-> 3, res |-> "ok"] >>

\* ------------------------------------------------------------------------
\* C14
\* ------------------------------------------------------------------------

\* The attempts a and b ended alike: both failed, or both gave a version.
SameOutcome(a, b) == a.res = b.res /\ a.res # "pending"

\* C14: detection is stateless across calls: the second call of
\* libc_version() starts as the first did (first detector, first arch, no
\* result, no descriptor open, no temporary file); as long as its candidates
\* end as they ended in the first call it makes the attempts the first call
\* made, in the same order, and no others; and when all its candidates ended
\* as in the first call, with the same versions, it returns the first call's
\* result.
C14_StatelessAcrossCalls ==
  /\ [][calls' # calls
          => /\ pc' = "g_loop"
             /\ gi' = 1
             /\ mi' = 1
             /\ hist' = <<>>
             /\ f' = None /\ read_only_f' = None /\ fdtable' = {} /\ inodes' = {}
             /\ child' = None /\ output' = None
             /\ gres' = None /\ mres' = None /\ result' = None
             /\ host' = host]_vars
  /\ [](calls # <<>> =>
          \A k \in DOMAIN hist :
            (\A j \in 1..(k - 1) : j \in DOMAIN calls[1].hist /\ SameOutcome(hist[j], calls[1].hist[j]))
              => /\ k \in DOMAIN calls[1].hist
                 /\ hist[k].fam = calls[1].hist[k].fam
                 /\ hist[k].idx = calls[1].hist[k].idx)
  /\ []((calls # <<>> /\ pc = "done" /\ hist = calls[1].hist
           /\ gres = calls[1].gres /\ mres = calls[1].mres)
          => result = calls[1].result)
  /\ []((calls # <<>> /\ pc = "done"
           /\ \A j \in DOMAIN hist : j \in DOMAIN calls[1].hist /\ SameOutcome(hist[j], calls[1].hist[j]))
          => /\ Len(hist) = Len(calls[1].hist)
             /\ (result = None) = (calls[1].result = None)
             /\ result # None => result[1].family = calls[1].result[1].family)

\* The second call has returned what the first call returned, a musl version,
\* after the same attempts, the first of which failed in both calls.
C14_Witness ==
  /\ calls # <<>>
  /\ pc = "done"
  /\ hist = calls[1].hist
  /\ Len(hist) > 2
  /\ hist[1].res = "fail"
  /\ result # None
  /\ result[1].family = "Musl"
  /\ result = calls[1].result

\* ------------------------------------------------------------------------
\* C15
\* ------------------------------------------------------------------------

\* C15 as stated: the strategy is chosen by what the host supports, the
\* anonymous-memory strategy being preferred: a temporary file is used only
\* on a host that cannot execute an anonymous memory file.
C15_AnonymousMemoryPreferred ==
  inodes # {} => ~ memfd

\* C15, amended: every detector attempt uses the one strategy there is, the
\* temporary file, whatever the host supports: an attempt starts by creating
\* the temporary file, a detector is spawned only from that file (written,
\* made executable, re-opened read-only), and when any step of the strategy
\* fails the detector is given up, no other strategy being tried for it.
C15_TemporaryFileOnly ==
  /\ [][(pc = "g_loop" /\ gi <= Len(Registry))
          => (pc' = "g_tempfile" /\ child' = None /\ UNCHANGED handles)]_vars
  /\ [][(child = None /\ child' # None /\ pc \notin MuslPcs)
          => /\ pc = "g_spawn"
             /\ \E n \in inodes, e \in fdtable :
                  /\ e.fd = read_only_f[1]
                  /\ n.ino = e.ino
                  /\ n.content = child'[1].image
                  /\ n.content = Registry[gi].payload]_vars
  /\ [][(pc \in {"g_tempfile", "g_write", "g_chmod", "g_reopen", "g_spawn"}
           /\ pc' \notin GlibcAttemptPcs)
          => (MovesToNextDetector /\ fdtable' = {} /\ inodes' = {})]_vars
  /\ []((pc = "g_wait" /\ child # None) => Cardinality(inodes) = 1)
  /\ [][memfd' = memfd]_vars

\* A detector runs from its temporary file on a host that can execute an
\* anonymous memory file.
C15_Witness ==
  /\ memfd
  /\ pc = "g_wait"
  /\ child # None
  /\ \E n \in inodes : n.content = child[1].image

\* ------------------------------------------------------------------------
\* C16
\* ------------------------------------------------------------------------

\* A child has been spawned and has not exited.
ChildRunning == child # None /\ ~ child[1].exited

\* C16: there is no timeout and no cancellation: while the child of an
\* attempt has not exited the calling thread has no step, so that the
\* position, the indices, the attempts and the results stay as they are and
\* the call does not return; the only step there is is the child's exit,
\* whatever later detectors and musl loaders the host has.
C16_BlocksUntilChildExits ==
  /\ [](ChildRunning => (pc \in {"g_wait", "m_wait"} /\ ~ ENABLED Thread))
  /\ [][ChildRunning
          => /\ child' # None
             /\ child'[1].exited
             /\ UNCHANGED <<pc, gi, mi, hist, output, gres, mres, result, handles>>]_vars
  /\ [](pc = "done" => ~ ChildRunning)
  /\ [][pc' = "done" => ~ ChildRunning]_vars

\* The first of two detectors runs and has not exited, on a host that has
\* musl loaders as well.
C16_Witness ==
  /\ pc = "g_wait"
  /\ ChildRunning
  /\ gi = 1
  /\ Len(Registry) = 2
  /\ loaders # {}

\* ------------------------------------------------------------------------
\* C17
\* ------------------------------------------------------------------------

\* The lines of the text, cut at every '\n'.
RefLines(text) ==
  LET nls == {i \in DOMAIN text : text[i] = "\n"}
      starts == {i \in DOMAIN text : i = 1 \/ text[i - 1] = "\n"}
  IN {SubSeq(text, i, (IF \E j \in nls : j >= i
                       THEN (CHOOSE j \in nls : j >= i /\ \A k \in nls : k >= i => j <= k) - 1
                       ELSE Len(text))) : i \in starts}

\* The lines of the text that start with "Version " and whose remainder
\* parses as major.minor.
ParsableVersionLines(text) ==
  {l \in RefLines(text) :
     /\ Len(l) >= Len(VersionPrefix)
     /\ SubSeq(l, 1, Len(VersionPrefix)) = VersionPrefix
     /\ ParseMajorMinorVersion(SubSeq(l, Len(VersionPrefix) + 1, Len(l))) # None}

\* C17: in musl_libc_version() only the first stderr line that starts with
\* "Version " is considered for an arch: the parser is called on that line's
\* remainder and on nothing else of the output, and when it does not parse
\* the arch is skipped and the next tag tried, even when a later stderr line
\* starts with "Version " and would parse.
C17_FirstVersionLineOnly ==
  /\ [](pc \in {"m_parsing", "m_parsed"}
          => arg = RefFirstVersionLine(FromUtf8Lossy(output[1].stderr)))
  /\ [][(pc = "m_parsed" /\ ret = None)
          => /\ MovesToNextArch
             /\ arg' = None
             /\ output' = None]_vars
  /\ [][(pc = "m_parsing" /\ ParsableVersionLines(FromUtf8Lossy(output[1].stderr)) # {}
           /\ ParseMajorMinorVersion(RefFirstVersionLine(FromUtf8Lossy(output[1].stderr))[1]) = None)
          => (ret' = None /\ pc' = "m_parsed")]_vars
  /\ [][(pc \in {"m_parsing", "m_parsed"}) => (pc' # "m_parsing")]_vars

\* The loader's first "Version " line does not parse, a later one would, and
\* the parser has returned absent for the arch.
C17_Witness ==
  /\ pc = "m_parsed"
  /\ ret = None
  /\ arg = Some(<<"x">>)
  /\ ParsableVersionLines(FromUtf8Lossy(output[1].stderr)) # {}

\* ------------------------------------------------------------------------
\* C18
\* ------------------------------------------------------------------------

\* The segments of the trimmed text that lie before its second '.': two of
\* them, or one when the text has no '.'.
RefFirstSegments(s) ==
  LET t == RefTrimmed(s)
      dots == {i \in DOMAIN t : t[i] = "."}
      d1 == CHOOSE i \in dots : \A j \in dots : i <= j
      later == dots \ {d1}
      d2 == IF later = {} THEN Len(t) + 1
            ELSE CHOOSE i \in later : \A j \in later : i <= j
  IN IF dots = {} THEN <<t>>
     ELSE <<SubSeq(t, 1, d1 - 1), SubSeq(t, d1 + 1, d2 - 1)>>

\* The digits of a segment from its first digit that is not 0 on, an
\* optional '+' in front set aside.
RefSignificant(seg) ==
  LET body == IF seg # <<>> /\ seg[1] = "+" THEN Tail(seg) ELSE seg
      nonzero == {i \in DOMAIN body : body[i] # "0"}
  IN IF nonzero = {} THEN <<>>
     ELSE SubSeq(body, CHOOSE i \in nonzero : \A j \in nonzero : i <= j, Len(body))

\* The segment is a decimal numeral (digits, at least one, after an optional
\* '+').
IsNumeral(seg) ==
  LET body == IF seg # <<>> /\ seg[1] = "+" THEN Tail(seg) ELSE seg
  IN body # <<>> /\ \A i \in DOMAIN body : body[i] \in Digits

\* The exact value of a numeral of at most ten significant digits, as the
\* pair <<value \div 100000, value % 100000>>.
RefValue(seg) ==
  LET sig == RefSignificant(seg)
  IN IF Len(sig) > 5
     THEN <<RefDecimal(SubSeq(sig, 1, Len(sig) - 5)), RefDecimal(SubSeq(sig, Len(sig) - 4, Len(sig)))>>
     ELSE <<0, RefDecimal(sig)>>

\* The segment is a numeral whose value is above 2^32 - 1 = 4294967295.
DenotesAboveU32(seg) ==
  /\ IsNumeral(seg)
  /\ \/ Len(RefSignificant(seg)) > 10
     \/ /\ Len(RefSignificant(seg)) = 10
        /\ \/ RefValue(seg)[1] > 42949
           \/ RefValue(seg)[1] = 42949 /\ RefValue(seg)[2] > 67295

CarriesMinus(seg) == \E i \in DOMAIN seg : seg[i] = "-"

\* C18: parse_major_minor_version never returns a wrapped or truncated
\* number: each component returned is the exact decimal value of its segment
\* and lies in 0..2^32-1, and when one of the first two segments denotes a
\* value above 2^32-1 or carries a minus sign the result is absent.
C18_NoWrappedNumber ==
  pc \in {"p_ret", "g_parsed", "m_parsed"} =>
    LET segs == RefFirstSegments(arg[1])
    IN /\ ret # None =>
            /\ Len(segs) = 2
            /\ \A i \in 1..2 :
                 /\ IsNumeral(segs[i])
                 /\ ~ DenotesAboveU32(segs[i])
                 /\ ret[1][i] = RefValue(segs[i])
                 /\ ret[1][i][1] \in 0..42949
                 /\ ret[1][i][2] \in 0..99999
                 /\ U32Le(ret[1][i], U32_MAX)
       /\ (\E i \in DOMAIN segs : DenotesAboveU32(segs[i]) \/ CarriesMinus(segs[i]))
            => ret = None
       /\ arg[1] = <<"4", "2", "9", "4", "9", "6", "7", "2", "9", "5", ".", "0">>
            => ret = Some(<<U32_MAX, U32(0)>>)

\* The parser has returned absent for "4294967296.0", whose first segment is
\* 2^32.
C18_Witness ==
  /\ pc = "p_ret"
  /\ arg = Some(<<"4", "2", "9", "4", "9", "6", "7", "2", "9", "6", ".", "0">>)
  /\ DenotesAboveU32(RefFirstSegments(arg[1])[1])
  /\ ret = None

\* ------------------------------------------------------------------------
\* C19
\* ------------------------------------------------------------------------

\* C19: libc_version() adds nothing to and removes nothing from what the
\* family functions returned: a GLibC result carries the version
\* glibc_version() returned, and musl_libc_version() was not called; a Musl
\* result carries the version musl_libc_version() returned, after
\* glibc_version() returned absent; the result is absent exactly when both
\* were called and both returned absent.
C19_ResultIsFamilyResult ==
  /\ [](pc = "done" =>
          /\ (result # None /\ result[1].family = "GLibC")
               => /\ gres # None
                  /\ result[1].version = gres[1]
                  /\ MuslAttempts = {}
                  /\ mres = None
          /\ (result # None /\ result[1].family = "Musl")
               => /\ gres = None
                  /\ mres # None
                  /\ result[1].version = mres[1]
          /\ gres # None => (result # None /\ result[1].family = "GLibC")
          /\ (gres = None /\ mres # None) => (result # None /\ result[1].family = "Musl")
          /\ (result = None) = (gres = None /\ mres = None)
          /\ result = None
               => /\ Cardinality(MuslAttempts) = Len(MuslArchs)
                  /\ Cardinality(GlibcAttempts) = Len(Registry)
                  /\ \A k \in DOMAIN hist : hist[k].res = "fail")
  /\ [][pc = "g_ret" => (IF gres # None
                         THEN result' = Some([family |-> "GLibC", version |-> gres[1]]) /\ pc' = "done"
                         ELSE result' = None /\ pc' = "m_loop")]_vars
  /\ [][pc = "m_ret" => /\ pc' = "done"
                        /\ result' = (IF mres # None
                                      THEN Some([family |-> "Musl", version |-> mres[1]])
                                      ELSE None)]_vars
  /\ [][pc' = "done" => (gres' = gres /\ mres' = mres)]_vars

\* libc_version() has returned Musl (1,1), the version musl_libc_version()
\* returned after glibc_version() returned absent.
C19_Witness ==
  /\ pc = "done"
  /\ gres = None
  /\ mres = Some(<<U32(1), U32(1)>>)
  /\ result = Some([family |-> "Musl", version |-> <<U32(1), U32(1)>>])

====
